---- MODULE Spec2Model ----
(***************************************************************************)
(* A model of the Experiment builder of src/sample/experiment.py: the      *)
(* registry of generators, models and metrics, run(), test_specific_set(), *)
(* reset() and clear(), the built-in metric functions, and the built-in    *)
(* generator builders with the causal mechanisms they register.            *)
(*                                                                         *)
(* Floating-point scores are modelled as extended rationals <<n, d>> with  *)
(* d >= 0 in lowest terms: <<1, 0>> is +Inf, <<-1, 0>> is -Inf and         *)
(* <<0, 0>> is NaN, following the IEEE rules numpy applies (a division by  *)
(* zero warns and returns Inf or NaN; it does not raise).                  *)
(***************************************************************************)
EXTENDS Integers, Sequences, FiniteSets, TLC

VARIABLES
    results,      \* self.results: list of tables
    generators,   \* self.generators: list of (generator, sample_size)
    models,       \* self.models: list of models
    metrics,      \* self.metrics: dict name -> function, in insertion order
    seed,         \* self.seed
    trained,      \* self.trained
    count,        \* self.count
    directory,    \* self.directory, a string (sequence of characters)
    written,      \* the paths given to save_pandas_table since reset()
    last,         \* the last call made on the experiment and how it ended
    ranSince,     \* history: a run() completed since the last reset()/clear()
    evaluated     \* the last direct evaluation of a registered metric or of a
                  \* registered generator's mechanism

vars == <<results, generators, models, metrics, seed, trained, count,
          directory, written, last, ranSince, evaluated>>

----------------------------------------------------------------------------
(* Bounds of the model.                                                    *)

MaxGenerators == 2
MaxModels == 2
MaxMetrics == 2
MaxResults == 2
MaxCount == 2

----------------------------------------------------------------------------
(* Extended rational arithmetic (numpy float64 semantics without rounding) *)

Abs(i) == IF i < 0 THEN -i ELSE i

Sgn(i) == IF i < 0 THEN -1 ELSE IF i > 0 THEN 1 ELSE 0

RECURSIVE Gcd(_, _)
Gcd(a, b) == IF b = 0 THEN a ELSE Gcd(b, a % b)

Norm(n, d) ==
    IF d = 0 THEN <<Sgn(n), 0>>
    ELSE LET g == Gcd(Abs(n), Abs(d))
             s == IF d < 0 THEN -1 ELSE 1
         IN  <<(s * n) \div g, (s * d) \div g>>

NaN == <<0, 0>>
Inf == <<1, 0>>
FromInt(i) == <<i, 1>>
IsFinite(a) == a[2] # 0

FAdd(a, b) ==
    IF a[2] = 0 /\ b[2] = 0
    THEN (IF a[1] = b[1] THEN a ELSE NaN)
    ELSE Norm(a[1] * b[2] + b[1] * a[2], a[2] * b[2])

FSub(a, b) == FAdd(a, <<-b[1], b[2]>>)

FMul(a, b) == Norm(a[1] * b[1], a[2] * b[2])

FDiv(a, b) ==
    LET s == IF b[1] < 0 THEN -1 ELSE 1
    IN  Norm(s * a[1] * b[2], s * a[2] * b[1])

FAbs(a) == <<Abs(a[1]), a[2]>>

RECURSIVE SumInts(_)
SumInts(s) == IF s = <<>> THEN 0 ELSE Head(s) + SumInts(Tail(s))

\* np.mean of a sequence of numbers; the mean of an empty sequence is NaN.
NpMean(s) == FDiv(FromInt(SumInts(s)), FromInt(Len(s)))

----------------------------------------------------------------------------
(* The built-in metric functions: lambda ite_truth, ite_pred: ...          *)
(* A metric evaluation either returns a score or raises.                   *)

Returned(v) == [err |-> "none", val |-> v]
Raised(e) == [err |-> e, val |-> NaN]

\* 'True ATE': np.mean(ite_truth)
TrueAte(ite_truth, ite_pred) == Returned(NpMean(ite_truth))

\* 'Est. ATE': np.mean(ite_pred)
EstimatedAte(ite_truth, ite_pred) == Returned(NpMean(ite_pred))

\* 'eATE': np.abs(np.mean(ite_truth) - np.mean(ite_pred))
AteError(ite_truth, ite_pred) ==
    Returned(FAbs(FSub(NpMean(ite_truth), NpMean(ite_pred))))

\* 'eATE (%)':
\*   np.abs((np.mean(ite_truth) - np.mean(ite_pred)) / np.mean(ite_truth)) * 100
AtePercentError(ite_truth, ite_pred) ==
    Returned(FMul(FAbs(FDiv(FSub(NpMean(ite_truth), NpMean(ite_pred)),
                            NpMean(ite_truth))),
                  FromInt(100)))

RECURSIVE SumSquares(_, _, _)
SumSquares(t, p, i) ==
    IF i > Len(t) THEN 0
    ELSE (t[i] - p[i]) * (t[i] - p[i]) + SumSquares(t, p, i + 1)

RECURSIVE SumAbs(_, _, _)
SumAbs(t, p, i) ==
    IF i > Len(t) THEN 0
    ELSE Abs(t[i] - p[i]) + SumAbs(t, p, i + 1)

\* 'PEHE (MSE)': np.sum([(ite_truth[i] - ite_pred[i]) ** 2
\*                       for i in range(len(ite_truth))]) / np.prod(ite_truth.shape)
\* ite_pred[i] raises IndexError when ite_pred is shorter than ite_truth.
MeanSquaredError(ite_truth, ite_pred) ==
    IF Len(ite_pred) < Len(ite_truth) THEN Raised("IndexError")
    ELSE Returned(FDiv(FromInt(SumSquares(ite_truth, ite_pred, 1)),
                       FromInt(Len(ite_truth))))

\* 'PEHE (MAE)': the same with abs(ite_truth[i] - ite_pred[i])
AbsoluteError(ite_truth, ite_pred) ==
    IF Len(ite_pred) < Len(ite_truth) THEN Raised("IndexError")
    ELSE Returned(FDiv(FromInt(SumAbs(ite_truth, ite_pred, 1)),
                       FromInt(Len(ite_truth))))

\* The scoring functions a metric entry can hold, by the name of the
\* builder that registers them.
ApplyMetric(fn, ite_truth, ite_pred) ==
    CASE fn = "true_ate" -> TrueAte(ite_truth, ite_pred)
      [] fn = "estimated_ate" -> EstimatedAte(ite_truth, ite_pred)
      [] fn = "ate_error" -> AteError(ite_truth, ite_pred)
      [] fn = "ate_percent_error" -> AtePercentError(ite_truth, ite_pred)
      [] fn = "mean_squared_error" -> MeanSquaredError(ite_truth, ite_pred)
      [] fn = "absolute_error" -> AbsoluteError(ite_truth, ite_pred)

----------------------------------------------------------------------------
(* Strings are sequences of characters, so that a slice such as            *)
(* generator.directory[5:] cuts where the code cuts. A part of a string    *)
(* that no operation looks into is kept as one element.                    *)

\* f'experiments/experiment_{seed}_{datetime_str}_{hash}'
ExperimentDirectory(sd) ==
    <<"e", "x", "p", "e", "r", "i", "m", "e", "n", "t", "s", "/",
      "experiment_">>
    \o (IF sd # "None" THEN <<"seeded_", sd>> ELSE <<"randomized">>)
    \o <<"_", "datetime", "_", "hash">>

\* A generator's directory when it is constructed: 'data/' and its name.
GeneratorDirectory(name) == <<"d", "a", "t", "a", "/", name>>

\* s[n:]
SliceFrom(s, n) == SubSeq(s, n + 1, Len(s))

----------------------------------------------------------------------------
(* Collaborators: generators, models, the per-generator comparison and the *)
(* table store.                                                            *)

\* The ground truth column of the data a generator writes: sample_size rows,
\* each with the generator's treatment effect.
GeneratedTruth(gen, sample_size) == [i \in 1..sample_size |-> gen.eff]

\* model.estimate_causal_effect(data): one prediction per row of data.
EstimateCausalEffect(model, data) == [i \in 1..Len(data) |-> model.est]

\* A Python dict as the sequence of its items in insertion order:
\* d[k] = v replaces the value of an existing key and keeps its place.
HasKey(d, k) == \E i \in 1..Len(d) : d[i].key = k

DictSet(d, k, v) ==
    IF HasKey(d, k)
    THEN [i \in 1..Len(d) |-> IF d[i].key = k THEN [key |-> k, value |-> v]
                                               ELSE d[i]]
    ELSE Append(d, [key |-> k, value |-> v])

Keys(d) == [i \in 1..Len(d) |-> d[i].key]

\* model_dictionary = {}; for model in self.models:
\*     model_dictionary[str(model)] = model
RECURSIVE ModelDictionaryFrom(_, _)
ModelDictionaryFrom(d, ms) ==
    IF ms = <<>> THEN d
    ELSE ModelDictionaryFrom(DictSet(d, Head(ms).name, Head(ms)), Tail(ms))

ModelDictionary(ms) == ModelDictionaryFrom(<<>>, ms)

\* compare.run(model_dictionary, metric_dictionary, data_file, ...).to_numpy():
\* one row per entry of model_dictionary, one column per metric, each cell
\* the metric of the generated truth and the model's predictions.
CompareRun(model_dictionary, metric_dictionary, gen, sample_size) ==
    LET truth == GeneratedTruth(gen, sample_size)
    IN  [i \in 1..Len(model_dictionary) |->
           [j \in 1..Len(metric_dictionary) |->
              ApplyMetric(metric_dictionary[j].value, truth,
                          EstimateCausalEffect(model_dictionary[i].value,
                                               truth)).val]]

----------------------------------------------------------------------------
(* Inputs of the calls.                                                    *)

Seeds == {"7"}

\* Models: a display name (str(model)) and the effect the model estimates.
ModelPool == {[name |-> "A", est |-> 1], [name |-> "B", est |-> 3]}

\* Generators, each with the sample size it is registered with: a name and
\* the treatment effect of the data the generator writes.
GeneratorInputs == {[name |-> "g0", eff |-> 0, sample_size |-> 1],
                    [name |-> "g2", eff |-> 2, sample_size |-> 2]}

\* test_specific_set inputs: a test set (one row of features per element)
\* and a truth set (one true effect per element).
TestInputs == {[test_set |-> <<10>>, truth_set |-> <<0>>],
               [test_set |-> <<10>>, truth_set |-> <<1, 3>>]}

\* A call on the experiment: the method, its data arguments, how it ended.
Called(op, args, status) == [op |-> op, args |-> args, status |-> status]

NoArgs == <<>>

TestArgs(test_set, truth_set) ==
    [test_set |-> test_set, truth_set |-> truth_set]

NotEvaluated == [metric |-> "", ite_truth |-> <<>>, ite_pred |-> <<>>,
                 outcome |-> Raised("")]

----------------------------------------------------------------------------
(* Experiment.__init__ and reset                                           *)

Init ==
    \E sd \in Seeds :
        /\ results = <<>>
        /\ generators = <<>>
        /\ models = <<>>
        /\ metrics = <<>>
        /\ seed = sd
        /\ trained = FALSE
        /\ count = 0
        /\ directory = ExperimentDirectory(sd)
        /\ written = {}
        /\ last = Called("__init__", NoArgs, "ok")
        /\ ranSince = FALSE
        /\ evaluated = NotEvaluated

\* reset() that does not zero the counter of test_specific_set calls
reset_keeps_count(sd) ==
    /\ results' = <<>>
    /\ generators' = <<>>
    /\ models' = <<>>
    /\ metrics' = <<>>
    /\ seed' = sd
    /\ trained' = FALSE
    /\ directory' = ExperimentDirectory(sd)
    /\ written' = {}
    /\ last' = Called("reset", NoArgs, "ok")
    /\ ranSince' = FALSE
    /\ UNCHANGED <<evaluated, count>>

reset(sd) ==
    /\ results' = <<>>
    /\ generators' = <<>>
    /\ models' = <<>>
    /\ metrics' = <<>>
    /\ seed' = sd
    /\ trained' = FALSE
    /\ count' = 0
    /\ directory' = ExperimentDirectory(sd)
    /\ written' = {}
    /\ last' = Called("reset", NoArgs, "ok")
    /\ ranSince' = FALSE
    /\ UNCHANGED evaluated

\* clear() that forgets to lower the trained flag
clear_keeps_trained ==
    /\ results' = <<>>
    /\ generators' = <<>>
    /\ last' = Called("clear", NoArgs, "ok")
    /\ ranSince' = FALSE
    /\ UNCHANGED <<evaluated, models, metrics, seed, trained, count,
                   directory, written>>

\* clear() that empties the models list as reset() does
clear_drops_models ==
    /\ results' = <<>>
    /\ generators' = <<>>
    /\ models' = <<>>
    /\ trained' = FALSE
    /\ last' = Called("clear", NoArgs, "ok")
    /\ ranSince' = FALSE
    /\ UNCHANGED <<evaluated, metrics, seed, count, directory, written>>

clear ==
    /\ results' = <<>>
    /\ generators' = <<>>
    /\ trained' = FALSE
    /\ last' = Called("clear", NoArgs, "ok")
    /\ ranSince' = FALSE
    /\ UNCHANGED <<evaluated, models, metrics, seed, count, directory, written>>

----------------------------------------------------------------------------
(* Builders                                                                *)

SizeArgs(sample_size) == [sample_size |-> sample_size]

\* self.generators.append((generator, sample_size)); return self.
\* Every generator builder that succeeds ends here; op is the method the
\* caller called.
add_generator(op, generator, sample_size) ==
    /\ Len(generators) < MaxGenerators
    /\ generators' = Append(generators, [generator |-> generator,
                                         sample_size |-> sample_size])
    /\ last' = Called(op, SizeArgs(sample_size), "ok")
    /\ UNCHANGED <<evaluated, results, models, metrics, seed, trained,
                   count, directory, written, ranSince>>

add_custom_generator(generator, sample_size) ==
    add_generator("add_custom_generator", generator, sample_size)

add_custom_model(model) ==
    /\ Len(models) < MaxModels
    /\ models' = Append(models, model)
    /\ last' = Called("add_custom_model", NoArgs, "ok")
    /\ UNCHANGED <<evaluated, results, generators, metrics, seed, trained, count,
                   directory, written, ranSince>>

add_custom_metric(name, scoring_function) ==
    /\ HasKey(metrics, name) \/ Len(metrics) < MaxMetrics
    /\ metrics' = DictSet(metrics, name, scoring_function)
    /\ last' = Called("add_custom_metric", NoArgs, "ok")
    /\ UNCHANGED <<evaluated, results, generators, models, seed, trained, count,
                   directory, written, ranSince>>

add_mean_squared_error == add_custom_metric("PEHE (MSE)", "mean_squared_error")

add_ate_percent_error == add_custom_metric("eATE (%)", "ate_percent_error")

----------------------------------------------------------------------------
(* run                                                                     *)

\* A numpy array of one or two dimensions.
NpArray1(v) == [ndim |-> 1, v |-> v]
NpArray2(v) == [ndim |-> 2, v |-> v]

\* results + result, where result is the matrix of one generator: a
\* one-dimensional results is broadcast over the rows of result.
NpAdd(acc, result) ==
    NpArray2([i \in 1..Len(result) |->
                [j \in 1..Len(result[i]) |->
                   FAdd(IF acc.ndim = 1 THEN acc.v[j] ELSE acc.v[i][j],
                        result[i][j])]])

\* results / n, elementwise
NpDivide(acc, n) ==
    IF acc.ndim = 1
    THEN NpArray1([j \in 1..Len(acc.v) |-> FDiv(acc.v[j], FromInt(n))])
    ELSE NpArray2([i \in 1..Len(acc.v) |->
                     [j \in 1..Len(acc.v[i]) |-> FDiv(acc.v[i][j], FromInt(n))]])

\* for generator, sample_size in self.generators: ... results = results + result
RECURSIVE SumOverGenerators(_, _, _, _)
SumOverGenerators(acc, gens, model_dictionary, metric_dictionary) ==
    IF gens = <<>> THEN acc
    ELSE SumOverGenerators(
             NpAdd(acc, CompareRun(model_dictionary, metric_dictionary,
                                   Head(gens).generator,
                                   Head(gens).sample_size)),
             Tail(gens), model_dictionary, metric_dictionary)

\* The sum divided by the total number of samples in place of the number
\* of generators
AveragedResults_by_samples(gens, model_dictionary, metric_dictionary) ==
    NpDivide(SumOverGenerators(
                 NpArray1([j \in 1..Len(metric_dictionary) |-> FromInt(0)]),
                 gens, model_dictionary, metric_dictionary),
             SumInts([i \in 1..Len(gens) |-> gens[i].sample_size]))

\* results = np.array([0 for _ in metric_dictionary]); the loop;
\* results = results / len(self.generators)
AveragedResults(gens, model_dictionary, metric_dictionary) ==
    NpDivide(SumOverGenerators(
                 NpArray1([j \in 1..Len(metric_dictionary) |-> FromInt(0)]),
                 gens, model_dictionary, metric_dictionary),
             Len(gens))

\* generator.directory = self.directory + "/" + generator.directory[5:]
Redirected(gens, dir) ==
    [i \in 1..Len(gens) |->
       [gens[i] EXCEPT !.generator.directory =
           dir \o <<"/">> \o SliceFrom(gens[i].generator.directory, 5)]]

\* The table run() assembles: row i is indexed by the i-th key of
\* model_dictionary, the columns are the metric names.
FinalResult(averaged, model_dictionary, metric_dictionary) ==
    [index |-> [i \in 1..Len(averaged.v) |-> Keys(model_dictionary)[i]],
     columns |-> Keys(metric_dictionary),
     data |-> averaged.v]

\* self.results = [table] in place of an append
StoreResult_overwrite(table) == results' = <<table>>

\* self.results.append(table)
StoreResult(table) == results' = Append(results, table)

FinalTablePath(dir) == dir \o <<"/final_table">>

run ==
    LET model_dictionary == ModelDictionary(models)
        averaged == AveragedResults(generators, model_dictionary, metrics)
    IN  IF averaged.ndim = 1 /\ Len(averaged.v) > 0
        THEN \* list(result) on a float: TypeError, before anything is stored
             /\ last' = Called("run", NoArgs, "TypeError")
             /\ UNCHANGED <<evaluated, results, generators, models, metrics, seed,
                            trained, count, directory, written, ranSince>>
        ELSE /\ Len(results) < MaxResults
             /\ generators' = Redirected(generators, directory)
             /\ StoreResult(FinalResult(averaged, model_dictionary, metrics))
             /\ written' = written \cup {FinalTablePath(directory)}
             /\ trained' = TRUE
             /\ ranSince' = TRUE
             /\ last' = Called("run", NoArgs, "ok")
             /\ UNCHANGED <<evaluated, models, metrics, seed, count, directory>>

----------------------------------------------------------------------------
(* test_specific_set                                                       *)

\* The scores of one model: one metric evaluation per metric.
ScoreRow(model, test_set, truth_set) ==
    [j \in 1..Len(metrics) |->
       ApplyMetric(metrics[j].value, truth_set,
                   EstimateCausalEffect(model, test_set))]

ScoreRows(test_set, truth_set) ==
    [i \in 1..Len(models) |-> ScoreRow(models[i], test_set, truth_set)]

AnyRaised(rows) ==
    \E i \in 1..Len(rows) : \E j \in 1..Len(rows[i]) : rows[i][j].err # "none"

\* The first metric evaluation that raises, in the order of the loops.
FirstRaised(rows) ==
    LET i == CHOOSE i \in 1..Len(rows) :
                 /\ \E j \in 1..Len(rows[i]) : rows[i][j].err # "none"
                 /\ \A k \in 1..(i - 1) :
                       \A j \in 1..Len(rows[k]) : rows[k][j].err = "none"
        j == CHOOSE j \in 1..Len(rows[i]) :
                 /\ rows[i][j].err # "none"
                 /\ \A k \in 1..(j - 1) : rows[i][k].err = "none"
    IN  rows[i][j].err

\* A table with one row per distinct display name, as run() builds it
SpecificTable_by_name(rows) ==
    [index |-> Keys(ModelDictionary(models)),
     columns |-> Keys(metrics),
     data |-> [i \in 1..Len(ModelDictionary(models)) |->
                 [j \in 1..Len(rows[i]) |-> rows[i][j].val]]]

SpecificTable(rows) ==
    [index |-> [i \in 1..Len(models) |-> models[i].name],
     columns |-> Keys(metrics),
     data |-> [i \in 1..Len(rows) |->
                 [j \in 1..Len(rows[i]) |-> rows[i][j].val]]]

SpecificTablePath(dir, n) == dir \o <<"/table_comparing_specific_value_", n>>

test_specific_set(test_set, truth_set) ==
    IF ~trained
    THEN \* assert self.trained
         /\ last' = Called("test_specific_set",
                         TestArgs(test_set, truth_set), "AssertionError")
         /\ UNCHANGED <<evaluated, results, generators, models, metrics, seed, trained,
                        count, directory, written, ranSince>>
    ELSE LET rows == ScoreRows(test_set, truth_set)
         IN  /\ count < MaxCount
             /\ Len(results) < MaxResults
             /\ count' = count + 1
             /\ IF AnyRaised(rows)
                THEN /\ last' = Called("test_specific_set",
                                     TestArgs(test_set, truth_set),
                                     FirstRaised(rows))
                     /\ UNCHANGED <<results, written>>
                ELSE /\ StoreResult(SpecificTable(rows))
                     /\ written' = written \cup
                            {SpecificTablePath(directory, count + 1)}
                     /\ last' = Called("test_specific_set",
                                     TestArgs(test_set, truth_set), "ok")
             /\ UNCHANGED <<evaluated, generators, models, metrics, seed, trained,
                            directory, ranSince>>

----------------------------------------------------------------------------

NewGenerator(g) ==
    [name |-> g.name, eff |-> g.eff, directory |-> GeneratorDirectory(g.name)]

(* A registry takes an entry while it has room, and the entry handed to    *)
(* the builder is made when the call is.                                   *)
Next ==
    \/ \E sd \in Seeds : reset(sd)
    \/ clear
    \/ /\ Len(generators) < MaxGenerators
       /\ \E g \in GeneratorInputs :
              add_custom_generator(NewGenerator(g), g.sample_size)
    \/ /\ Len(models) < MaxModels
       /\ \E m \in ModelPool : add_custom_model(m)
    \/ add_mean_squared_error
    \/ add_ate_percent_error
    \/ run
    \/ \E t \in TestInputs : test_specific_set(t.test_set, t.truth_set)

Spec == Init /\ [][Next]_vars

----------------------------------------------------------------------------
(* The built-in metrics as functions: an experiment on which               *)
(* add_all_metrics() was called, whose registered scoring functions are    *)
(* applied to ground-truth and prediction sequences.                       *)

MaxLen == 2

EffectValues == {-1, 0, 1}

RECURSIVE SeqsUpTo(_)
SeqsUpTo(n) ==
    IF n = 0 THEN {<<>>}
    ELSE LET shorter == SeqsUpTo(n - 1)
         IN  shorter \cup {Append(q, v) : q \in {r \in shorter : Len(r) = n - 1},
                                          v \in EffectValues}

EffectSequences == SeqsUpTo(MaxLen)

\* self.add_ate_error().add_ate_percent_error().add_true_ate()
\*     .add_estimated_ate().add_pehe_mse().add_pehe_mae()
AllMetrics ==
    DictSet(DictSet(DictSet(DictSet(DictSet(DictSet(<<>>,
        "eATE", "ate_error"),
        "eATE (%)", "ate_percent_error"),
        "True ATE", "true_ate"),
        "Est. ATE", "estimated_ate"),
        "PEHE (MSE)", "mean_squared_error"),
        "PEHE (MAE)", "absolute_error")

MetricInit ==
    \E sd \in Seeds :
        /\ results = <<>>
        /\ generators = <<>>
        /\ models = <<>>
        /\ metrics = AllMetrics
        /\ seed = sd
        /\ trained = FALSE
        /\ count = 0
        /\ directory = ExperimentDirectory(sd)
        /\ written = {}
        /\ last = Called("add_all_metrics", NoArgs, "ok")
        /\ ranSince = FALSE
        /\ evaluated = NotEvaluated

\* self.metrics[name](ite_truth, ite_pred) for the j-th registered metric
evaluate_metric(j, ite_truth, ite_pred) ==
    /\ evaluated' = [metric |-> metrics[j].key,
                     ite_truth |-> ite_truth,
                     ite_pred |-> ite_pred,
                     outcome |-> ApplyMetric(metrics[j].value, ite_truth,
                                             ite_pred)]
    /\ UNCHANGED <<results, generators, models, metrics, seed, trained,
                   count, directory, written, last, ranSince>>

MetricNext ==
    \E j \in 1..Len(metrics) :
        \E ite_truth \in EffectSequences : \E ite_pred \in EffectSequences :
            evaluate_metric(j, ite_truth, ite_pred)

MetricSpec == MetricInit /\ [][MetricNext]_vars

----------------------------------------------------------------------------
(* The causal mechanisms of the built-in generators.                       *)
(* A function handed to a generator is named by its source text; the       *)
(* operators below give each text its value. Feature vectors are pairs     *)
(* <<x[0], x[1]>> of rationals: no built-in effect reads another feature.  *)

\* The defaults set by _set_defaults
self_main_effect == "lambda x: 2 * x[0] - 1"
self_treatment_effect == "lambda x: (1 + 1 / (1 + np.exp(-20 * (x[0] - 1 / 3)))) * (1 + 1 / (1 + np.exp(-20 * (x[1] - 1 / 3))))"
self_treatment_propensity == "lambda x: (1 + beta.pdf(x[0], 2, 4)) / 4"
self_noise == "lambda: 0.05 * np.random.normal(0, 1)"
self_treatment_function == "lambda propensity, noise: 1 if np.random.random() <= propensity else 0"
self_outcome_function == "lambda main, treat, treat_eff, noise: main + (treat - 0.5) * treat_eff + noise"
self_cate == "lambda x: self.treatment_effect(x)"

\* Functions the builders define themselves
constant_zero == "lambda x: 0"
constant_propensity == "lambda x: 0.5"
distance_propensity == "lambda x: 1 - np.sqrt((x[0] - 0.5) ** 2 + (x[1] - 0.5) ** 2)"
normal_noise == "lambda: np.random.normal(0, 0.01)"
additive_outcome == "lambda main, treat, treat_eff, noise: main + treat * treat_eff + noise"
local_cate == "lambda x: treatment_effect(x)"
default_distributions == "[np.random.random]"
default_proxy == "lambda features: [[feat] for feat in features]"
five_proxies == "lambda features: [[features[0]], [features[1]], [features[2]], [features[3]], [features[4]]]"
absent == "absent"

Half == <<1, 2>>

\* The feature vectors and noise values the mechanisms are evaluated at
Features == {<<FromInt(0), FromInt(0)>>, <<FromInt(0), Half>>,
             <<Half, Half>>, <<FromInt(1), FromInt(0)>>}

NoiseValues == {FromInt(0), <<1, 20>>}

\* 1 / (1 + np.exp(-20 * (x - 1 / 3))), to two decimals
Logistic(x) ==
    CASE x = FromInt(0) -> FromInt(0)
      [] x = Half -> <<97, 100>>
      [] x = FromInt(1) -> FromInt(1)

\* distr.pdf([x[0], x[1]]) of multivariate_normal(cov=0.01 * I, mean=mean),
\* to three decimals
Pdf(mean, x) ==
    CASE mean = <<Half, Half>> /\ x = <<Half, Half>> -> <<3183, 200>>
      [] mean = <<<<1, 5>>, <<3, 5>>>> /\ x = <<FromInt(0), Half>>
           -> <<653, 500>>
      [] mean = <<<<1, 5>>, <<3, 5>>>> /\ x = <<Half, Half>>
           -> <<107, 1000>>
      [] OTHER -> FromInt(0)

MainEffect(fn, x) ==
    CASE fn = self_main_effect -> FSub(FMul(FromInt(2), x[1]), FromInt(1))
      [] fn = constant_zero -> FromInt(0)

TreatmentEffect(fn, x) ==
    CASE fn = self_treatment_effect ->
             FMul(FAdd(FromInt(1), Logistic(x[1])),
                  FAdd(FromInt(1), Logistic(x[2])))
      [] fn = constant_zero -> FromInt(0)
      [] fn = "lambda x: 0.3" -> <<3, 10>>
      [] fn = "lambda x: distr.pdf([x[0], x[1]])" -> Pdf(<<Half, Half>>, x)
      [] fn = "lambda x: distr.pdf([x[0], x[1]]) / 10" ->
             FDiv(Pdf(<<<<1, 5>>, <<3, 5>>>>, x), FromInt(10))
      [] fn = "lambda x: x[0] ** 2" -> FMul(x[1], x[1])
      [] fn = "lambda x: x[0] ** 2 + x[1] ** 2" ->
             FAdd(FMul(x[1], x[1]), FMul(x[2], x[2]))

OutcomeFunction(fn, main, treat, treat_eff, noise) ==
    CASE fn = self_outcome_function ->
             FAdd(FAdd(main, FMul(FSub(FromInt(treat), Half), treat_eff)),
                  noise)
      [] fn = additive_outcome ->
             FAdd(FAdd(main, FMul(FromInt(treat), treat_eff)), noise)
      [] fn = "lambda main, treat, treat_eff, noise: 2 * treat * treat_eff + noise" ->
             FAdd(FMul(FMul(FromInt(2), FromInt(treat)), treat_eff), noise)

\* generator.cate(x): self.cate reads the experiment's treatment_effect,
\* 'lambda x: treatment_effect(x)' the one of the builder that defined it.
Cate(gen, x) ==
    CASE gen.cate = self_cate -> TreatmentEffect(self_treatment_effect, x)
      [] gen.cate = local_cate -> TreatmentEffect(gen.treatment_effect, x)
      [] gen.cate = constant_zero -> FromInt(0)
      [] gen.cate = "lambda x: 0.1" -> <<1, 10>>
      [] gen.cate = "lambda x: 1" -> FromInt(1)

\* The random source a function draws from when it is called.
NumpyFunctions ==
    {self_noise, self_treatment_function, normal_noise,
     default_distributions, "[np.random.uniform]",
     "lambda x: 1 if np.random.random() <= 0.05 else 0",
     "lambda features: [[np.random.normal(features[0], 0.3), ...], [np.random.normal(features[1], 0.25), ...], [features[2]], [features[3]], [features[4]]]"}

PyroFunctions ==
    {"lambda main, treat, treat_eff, noise: dist.Bernoulli(logits=main + treat * treat_eff + noise).sample().cpu().item()",
     "lambda z: dist.Bernoulli(np.clip(np.sin(np.pi * z[0] * z[1]), 0.1, 0.9)).sample().cpu().item()",
     "[lambda: dist.Uniform(-2, 2).sample().cpu().item()]",
     "lambda z: [[dist.Normal(z[0], proxy_noise_weight).sample().cpu().item()]]",
     "lambda z: dist.Bernoulli(logits=z[0]).sample().cpu().item()",
     "def outcome_function(z, t, mean=False): dist.Normal(t * z[0] + z[0], 0.5).sample().cpu().item()",
     "[lambda: dist.Bernoulli(0.5).sample().cpu().item()]",
     "lambda z: [[dist.Normal(z[0], 5 * z[0] + 3 * (1 - z[0])).sample().cpu().item()]]",
     "lambda z, t: dist.Bernoulli(logits=3 * (z[0] + 2 * (2 * t - 1))).sample().cpu().item()"}

RandomSource(fn) ==
    IF fn \in NumpyFunctions THEN "np.random"
    ELSE IF fn \in PyroFunctions THEN "pyro"
    ELSE "none"

\* data_generator.ProxyGenerator(...)
ProxyGenerator(main_effect, treatment_effect, treatment_propensity, proxy_function, noise, cate, treatment_function, outcome_function, dimensions, distributions, name) ==
    [class |-> "ProxyGenerator",
     main_effect |-> main_effect,
     treatment_effect |-> treatment_effect,
     treatment_propensity |-> treatment_propensity,
     proxy_function |-> proxy_function,
     noise |-> noise,
     cate |-> cate,
     treatment_function |-> treatment_function,
     outcome_function |-> outcome_function,
     dimensions |-> dimensions,
     distributions |-> distributions,
     name |-> name,
     directory |-> GeneratorDirectory(name)]

\* data_generator.CevaeGenerator(...)
CevaeGenerator(distributions, proxy_function, treatment_function, outcome_function, dimensions, name) ==
    [class |-> "CevaeGenerator",
     main_effect |-> absent,
     treatment_effect |-> absent,
     treatment_propensity |-> absent,
     proxy_function |-> proxy_function,
     noise |-> absent,
     cate |-> absent,
     treatment_function |-> treatment_function,
     outcome_function |-> outcome_function,
     dimensions |-> dimensions,
     distributions |-> distributions,
     name |-> name,
     directory |-> GeneratorDirectory(name)]

----------------------------------------------------------------------------
(* The generator each builder constructs.                                  *)

\* add_custom_generated_data: the generator it constructs, with the defaults
\* for distributions=None and proxy_function=None
CustomGeneratedData(main_effect, treatment_effect, treatment_propensity, noise, cate, dimensions, treatment_function, outcome_function, proxy_function, distributions, name) ==
    ProxyGenerator(main_effect, treatment_effect, treatment_propensity,
                   IF proxy_function = "None" THEN default_proxy
                                              ELSE proxy_function,
                   noise, cate, treatment_function, outcome_function,
                   dimensions,
                   IF distributions = "None" THEN default_distributions
                                             ELSE distributions,
                   name)

\* add_cevae_generated_data: the generator it constructs
CevaeGeneratedData(distributions, proxy_function, treatment_function, outcome_function, dimensions, name) ==
    CevaeGenerator(IF distributions = "None" THEN default_distributions
                                             ELSE distributions,
                   IF proxy_function = "None" THEN default_proxy
                                              ELSE proxy_function,
                   treatment_function, outcome_function, dimensions, name)

AllEffectsGenerator(dimensions) ==
    CustomGeneratedData(self_main_effect, self_treatment_effect,
                        self_treatment_propensity, self_noise, self_cate,
                        dimensions, self_treatment_function,
                        self_outcome_function, "None", "None", "all_effects")

NoTreatmentEffectGenerator(dimensions) ==
    CustomGeneratedData(self_main_effect, constant_zero,
                        self_treatment_propensity, self_noise, constant_zero,
                        dimensions, self_treatment_function,
                        self_outcome_function, "None", "None",
                        "no_treatment_effect")

OnlyTreatmentEffectGenerator(dimensions) ==
    CustomGeneratedData(constant_zero, self_treatment_effect,
                        constant_propensity, self_noise, local_cate,
                        dimensions, self_treatment_function,
                        self_outcome_function, "None", "None",
                        "only_treatment_effect")

BiasedGenerator(dimensions) ==
    CustomGeneratedData(constant_zero,
                        "lambda x: 1 if np.random.random() <= 0.05 else 0",
                        constant_propensity, normal_noise, "lambda x: 0.1",
                        dimensions, self_treatment_function,
                        "lambda main, treat, treat_eff, noise: 2 * treat * treat_eff + noise",
                        "None", "None", "biased_generator")

SpikedGenerator(dimensions) ==
    CustomGeneratedData(self_main_effect, "lambda x: distr.pdf([x[0], x[1]])",
                        distance_propensity, normal_noise, local_cate,
                        dimensions, self_treatment_function,
                        "lambda main, treat, treat_eff, noise: dist.Bernoulli(logits=main + treat * treat_eff + noise).sample().cpu().item()",
                        five_proxies, "None", "spiked_generator")

SyntheticGenerator(dimensions) ==
    CevaeGeneratedData("[np.random.uniform]", five_proxies,
                       "lambda z: dist.Bernoulli(np.clip(np.sin(np.pi * z[0] * z[1]), 0.1, 0.9)).sample().cpu().item()",
                       "lambda z, t: np.sin(np.pi * z[0] * z[1]) + 2 * (z[2] - 0.5) ** 2 + z[3] + 0.5 * z[4] + (t - 0.5) * (z[0] + z[1]) / 2 + noise",
                       dimensions, "easy_1_generator")

EasyGenerator(dimensions) ==
    CevaeGeneratedData("[lambda: dist.Uniform(-2, 2).sample().cpu().item()]",
                       "lambda z: [[dist.Normal(z[0], proxy_noise_weight).sample().cpu().item()]]",
                       "lambda z: dist.Bernoulli(logits=z[0]).sample().cpu().item()",
                       "def outcome_function(z, t, mean=False): dist.Normal(t * z[0] + z[0], 0.5).sample().cpu().item()",
                       dimensions, "easy_1_generator")

ConstantTreatmentEffectGenerator(dimensions) ==
    CustomGeneratedData(self_main_effect, "lambda x: 0.3",
                        distance_propensity, normal_noise, local_cate,
                        dimensions, self_treatment_function,
                        additive_outcome, five_proxies, "None",
                        "spiked_generator")

ConstantProxiedTreatmentEffectGenerator(dimensions) ==
    CustomGeneratedData(self_main_effect,
                        "lambda x: distr.pdf([x[0], x[1]]) / 10",
                        distance_propensity, normal_noise, local_cate,
                        dimensions, self_treatment_function,
                        additive_outcome,
                        "lambda features: [[features[0], features[0], features[0]], [features[1], features[1], features[1]], [features[2]], [features[3]], [features[4]]]",
                        "None", "spiked_generator")

ToyDatasetGenerator(dimensions) ==
    CevaeGeneratedData("[lambda: dist.Bernoulli(0.5).sample().cpu().item()]",
                       "lambda z: [[dist.Normal(z[0], 5 * z[0] + 3 * (1 - z[0])).sample().cpu().item()]]",
                       "lambda z: z[0]",
                       "lambda z, t: dist.Bernoulli(logits=3 * (z[0] + 2 * (2 * t - 1))).sample().cpu().item()",
                       dimensions, "cevae_toy_generator")

NoisySpikedProxyGenerator(dimensions) ==
    CustomGeneratedData(self_main_effect, "lambda x: x[0] ** 2 + x[1] ** 2",
                        distance_propensity, normal_noise, "lambda x: 1",
                        dimensions, self_treatment_function,
                        additive_outcome,
                        "lambda features: [[np.random.normal(features[0], 0.3), ...], [np.random.normal(features[1], 0.25), ...], [features[2]], [features[3]], [features[4]]]",
                        "None", "spiked_proxy_generator")

----------------------------------------------------------------------------
(* The generator builders as calls on the experiment.                      *)

Dimensions == {5}

SampleSizes == {1, 2}

add_custom_generated_data(generator, sample_size) ==
    add_generator("add_custom_generated_data", generator, sample_size)

add_cevae_generated_data(generator, sample_size) ==
    add_generator("add_cevae_generated_data", generator, sample_size)

add_all_effects_generator(dimensions, sample_size) ==
    add_generator("add_all_effects_generator",
                  AllEffectsGenerator(dimensions), sample_size)

add_no_treatment_effect_generator(dimensions, sample_size) ==
    add_generator("add_no_treatment_effect_generator",
                  NoTreatmentEffectGenerator(dimensions), sample_size)

add_only_treatment_effect_generator(dimensions, sample_size) ==
    add_generator("add_only_treatment_effect_generator",
                  OnlyTreatmentEffectGenerator(dimensions), sample_size)

add_biased_generator(dimensions, sample_size) ==
    add_generator("add_biased_generator",
                  BiasedGenerator(dimensions), sample_size)

add_spiked_generator(dimensions, sample_size) ==
    add_generator("add_spiked_generator",
                  SpikedGenerator(dimensions), sample_size)

add_synthetic_generator(dimensions, sample_size) ==
    add_generator("add_synthetic_generator",
                  SyntheticGenerator(dimensions), sample_size)

add_easy_generator(dimensions, sample_size) ==
    add_generator("add_easy_generator",
                  EasyGenerator(dimensions), sample_size)

add_constant_treatment_effect_generator(dimensions, sample_size) ==
    add_generator("add_constant_treatment_effect_generator",
                  ConstantTreatmentEffectGenerator(dimensions), sample_size)

add_constant_proxied_treatment_effect_generator(dimensions, sample_size) ==
    add_generator("add_constant_proxied_treatment_effect_generator",
                  ConstantProxiedTreatmentEffectGenerator(dimensions),
                  sample_size)

add_toy_dataset_generator(dimensions, sample_size) ==
    add_generator("add_toy_dataset_generator",
                  ToyDatasetGenerator(dimensions), sample_size)

\* self.add_custom_generated_proxy_data(...): the experiment has no such
\* method (its definition is commented out), so the attribute lookup raises
\* after the local functions are built and before anything is registered.
add_spiked_proxy_generator(dimensions, sample_size) ==
    /\ last' = Called("add_spiked_proxy_generator", SizeArgs(sample_size),
                      "AttributeError")
    /\ UNCHANGED <<evaluated, results, generators, models, metrics, seed,
                   trained, count, directory, written, ranSince>>

add_noisy_spiked_proxy_generator(dimensions, sample_size) ==
    add_generator("add_noisy_spiked_proxy_generator",
                  NoisySpikedProxyGenerator(dimensions), sample_size)

GeneratorBuilders ==
    {"add_custom_generator", "add_custom_generated_data",
     "add_cevae_generated_data", "add_all_effects_generator",
     "add_no_treatment_effect_generator",
     "add_only_treatment_effect_generator", "add_biased_generator",
     "add_spiked_generator", "add_synthetic_generator",
     "add_easy_generator", "add_constant_treatment_effect_generator",
     "add_constant_proxied_treatment_effect_generator",
     "add_toy_dataset_generator", "add_spiked_proxy_generator",
     "add_noisy_spiked_proxy_generator"}

BuilderNext ==
    \/ clear
    \/ /\ Len(generators) < MaxGenerators
       /\ \E g \in GeneratorInputs :
              add_custom_generator(NewGenerator(g), g.sample_size)
    \/ /\ Len(generators) < MaxGenerators
       /\ \E d \in Dimensions : \E n \in SampleSizes :
              add_custom_generated_data(NoTreatmentEffectGenerator(d), n)
    \/ /\ Len(generators) < MaxGenerators
       /\ \E d \in Dimensions : \E n \in SampleSizes :
              add_cevae_generated_data(ToyDatasetGenerator(d), n)
    \/ /\ Len(generators) < MaxGenerators
       /\ \E d \in Dimensions : \E n \in SampleSizes :
              add_all_effects_generator(d, n)
    \/ /\ Len(generators) < MaxGenerators
       /\ \E d \in Dimensions : \E n \in SampleSizes :
              add_no_treatment_effect_generator(d, n)
    \/ /\ Len(generators) < MaxGenerators
       /\ \E d \in Dimensions : \E n \in SampleSizes :
              add_only_treatment_effect_generator(d, n)
    \/ /\ Len(generators) < MaxGenerators
       /\ \E d \in Dimensions : \E n \in SampleSizes :
              add_biased_generator(d, n)
    \/ /\ Len(generators) < MaxGenerators
       /\ \E d \in Dimensions : \E n \in SampleSizes :
              add_spiked_generator(d, n)
    \/ /\ Len(generators) < MaxGenerators
       /\ \E d \in Dimensions : \E n \in SampleSizes :
              add_synthetic_generator(d, n)
    \/ /\ Len(generators) < MaxGenerators
       /\ \E d \in Dimensions : \E n \in SampleSizes :
              add_easy_generator(d, n)
    \/ /\ Len(generators) < MaxGenerators
       /\ \E d \in Dimensions : \E n \in SampleSizes :
              add_constant_treatment_effect_generator(d, n)
    \/ /\ Len(generators) < MaxGenerators
       /\ \E d \in Dimensions : \E n \in SampleSizes :
              add_constant_proxied_treatment_effect_generator(d, n)
    \/ /\ Len(generators) < MaxGenerators
       /\ \E d \in Dimensions : \E n \in SampleSizes :
              add_toy_dataset_generator(d, n)
    \/ \E d \in Dimensions : \E n \in SampleSizes :
           add_spiked_proxy_generator(d, n)
    \/ /\ Len(generators) < MaxGenerators
       /\ \E d \in Dimensions : \E n \in SampleSizes :
              add_noisy_spiked_proxy_generator(d, n)

BuilderSpec == Init /\ [][BuilderNext]_vars

----------------------------------------------------------------------------
(* The mechanisms at work: an experiment on which one built-in generator   *)
(* builder was called, whose generator is evaluated and asked for data.    *)

BuiltInGenerators(dimensions) ==
    {[op |-> "add_all_effects_generator",
      generator |-> AllEffectsGenerator(dimensions)],
     [op |-> "add_no_treatment_effect_generator",
      generator |-> NoTreatmentEffectGenerator(dimensions)],
     [op |-> "add_only_treatment_effect_generator",
      generator |-> OnlyTreatmentEffectGenerator(dimensions)],
     [op |-> "add_biased_generator",
      generator |-> BiasedGenerator(dimensions)],
     [op |-> "add_spiked_generator",
      generator |-> SpikedGenerator(dimensions)],
     [op |-> "add_synthetic_generator",
      generator |-> SyntheticGenerator(dimensions)],
     [op |-> "add_easy_generator",
      generator |-> EasyGenerator(dimensions)],
     [op |-> "add_constant_treatment_effect_generator",
      generator |-> ConstantTreatmentEffectGenerator(dimensions)],
     [op |-> "add_constant_proxied_treatment_effect_generator",
      generator |-> ConstantProxiedTreatmentEffectGenerator(dimensions)],
     [op |-> "add_toy_dataset_generator",
      generator |-> ToyDatasetGenerator(dimensions)],
     [op |-> "add_noisy_spiked_proxy_generator",
      generator |-> NoisySpikedProxyGenerator(dimensions)]}

NotSampled == [op |-> "none"]

MechanismInit ==
    \E sd \in Seeds : \E d \in Dimensions : \E n \in SampleSizes :
        \E b \in BuiltInGenerators(d) :
            /\ results = <<>>
            /\ generators = <<[generator |-> b.generator, sample_size |-> n]>>
            /\ models = <<>>
            /\ metrics = <<>>
            /\ seed = sd
            /\ trained = FALSE
            /\ count = 0
            /\ directory = ExperimentDirectory(sd)
            /\ written = {}
            /\ last = Called(b.op, SizeArgs(n), "ok")
            /\ ranSince = FALSE
            /\ evaluated = NotSampled

\* The mechanisms whose effect and outcome are functions of their
\* arguments alone
IsDeterministicMechanism(gen) ==
    /\ gen.class = "ProxyGenerator"
    /\ RandomSource(gen.treatment_effect) = "none"
    /\ RandomSource(gen.outcome_function) = "none"

\* generator.cate(x), and generator.outcome_function with treat = 1 and
\* treat = 0 for the same main effect, treatment effect and noise
evaluate_cate(i, x, noise) ==
    LET gen == generators[i].generator
        main == MainEffect(gen.main_effect, x)
        treat_eff == TreatmentEffect(gen.treatment_effect, x)
    IN  /\ IsDeterministicMechanism(gen)
        /\ evaluated' =
             [op |-> "cate", x |-> x, noise |-> noise,
              cate |-> Cate(gen, x),
              treated |-> OutcomeFunction(gen.outcome_function, main, 1,
                                          treat_eff, noise),
              control |-> OutcomeFunction(gen.outcome_function, main, 0,
                                          treat_eff, noise)]
        /\ UNCHANGED <<results, generators, models, metrics, seed, trained,
                       count, directory, written, last, ranSince>>

\* The functions of a generator that generate_data calls for every row
Components ==
    <<"distributions", "proxy_function", "treatment_effect",
      "treatment_function", "noise", "outcome_function">>

\* The state of pyro's (torch's) random-number generator when the data are
\* generated: np.random.seed(seed) does not set it.
TorchStates == {"t0", "t1"}

\* One draw of a function: a value of the stream it reads, told by the
\* state of the stream and the place of the draw.
Draw(source, np_seed, torch_state, row, component) ==
    CASE source = "np.random" -> <<"np.random", np_seed, row, component>>
      [] source = "pyro" -> <<"pyro", torch_state, row, component>>
      [] source = "none" -> <<"none">>

\* generator.generate_data(sample_size): the rows it writes
Dataset(gen, sample_size, np_seed, torch_state) ==
    [row \in 1..sample_size |->
       [c \in 1..Len(Components) |->
          Draw(RandomSource(gen[Components[c]]), np_seed, torch_state,
               row, Components[c])]]

\* generate_data of the registered generator in this experiment, and in a
\* second experiment constructed with the same seed and configured alike
generate_data(i, torch_state, other_torch_state) ==
    LET gen == generators[i].generator
        sample_size == generators[i].sample_size
    IN  /\ evaluated' =
             [op |-> "generate_data",
              first |-> Dataset(gen, sample_size, seed, torch_state),
              second |-> Dataset(gen, sample_size, seed, other_torch_state)]
        /\ UNCHANGED <<results, generators, models, metrics, seed, trained,
                       count, directory, written, last, ranSince>>

MechanismNext ==
    \/ \E i \in 1..Len(generators) : \E x \in Features :
           \E noise \in NoiseValues : evaluate_cate(i, x, noise)
    \/ \E i \in 1..Len(generators) :
           \E torch_state \in TorchStates :
               \E other_torch_state \in TorchStates :
                   generate_data(i, torch_state, other_torch_state)

MechanismSpec == MechanismInit /\ [][MechanismNext]_vars

----------------------------------------------------------------------------
(* Properties of the experiment's life cycle.                              *)
(* A step of a method m is a step that sets last.op to m: every call       *)
(* records itself in last.                                                 *)

\* C1: test_specific_set() called when no run() has completed since the
\* last reset()/clear() fails with the precondition (assertion) error and
\* leaves results, count, generators, models, metrics and trained unchanged.
C1_UntrainedTestFails ==
    [][(last'.op = "test_specific_set" /\ ~ranSince)
         => /\ last'.status = "AssertionError"
            /\ UNCHANGED <<results, count, generators, models, metrics,
                           trained>>]_vars

\* The failed call happens after a run(), a test_specific_set() and a
\* clear() (count > 0), with models still registered.
C1_Witness ==
    /\ last.op = "test_specific_set"
    /\ last.status = "AssertionError"
    /\ ~ranSince
    /\ count > 0
    /\ Len(models) > 0

\* C3: a completed run() with at least one generator registered appends
\* exactly one table to the end of results, leaves the earlier tables as
\* they were and sets trained, on the first run and on later ones.
C3_RunAppendsOneTable ==
    [][(last'.op = "run" /\ last'.status = "ok" /\ Len(generators) >= 1)
         => /\ Len(results') = Len(results) + 1
            /\ SubSeq(results', 1, Len(results)) = results
            /\ trained']_vars

\* A second run() on the same experiment: no test_specific_set() was made
\* (count = 0), so both tables come from run().
C3_Witness ==
    /\ last.op = "run"
    /\ last.status = "ok"
    /\ Len(generators) >= 1
    /\ Len(results) = 2
    /\ count = 0

\* C7: clear() empties generators and results, lowers trained, and leaves
\* models, metrics, count, seed and directory unchanged.
C7_ClearFrame ==
    [][last'.op = "clear"
         => /\ generators' = <<>>
            /\ results' = <<>>
            /\ trained' = FALSE
            /\ UNCHANGED <<models, metrics, count, seed, directory>>]_vars

\* clear() has acted on an experiment that had models, metrics and a
\* test_specific_set() call behind it.
C7_Witness ==
    /\ last.op = "clear"
    /\ Len(models) = 2
    /\ Len(metrics) = 2
    /\ count > 0
    /\ results = <<>>

\* C8: reset() returns the experiment to the freshly constructed state:
\* results, generators, models and metrics empty, trained False, count 0.
C8_ResetFresh ==
    [][last'.op = "reset"
         => /\ results' = <<>>
            /\ generators' = <<>>
            /\ models' = <<>>
            /\ metrics' = <<>>
            /\ trained' = FALSE
            /\ count' = 0]_vars

\* reset() has acted.
C8_Witness ==
    /\ last.op = "reset"
    /\ results = <<>>
    /\ models = <<>>
    /\ count = 0
    /\ written = {}

----------------------------------------------------------------------------
(* Properties of the tables.                                               *)

\* The table has one row per registered model, in registration order and
\* indexed by the display names, and one column per registered metric, in
\* the order the metric names were first inserted.
RowPerModelColumnPerMetric(table) ==
    /\ table.index = [i \in 1..Len(models) |-> models[i].name]
    /\ table.columns = [j \in 1..Len(metrics) |-> metrics[j].key]
    /\ Len(table.data) = Len(models)
    /\ \A i \in 1..Len(table.data) : Len(table.data[i]) = Len(metrics)

\* The step appends exactly one table, with that shape, and changes no
\* earlier table.
AppendsOneTable ==
    /\ Len(results') = Len(results) + 1
    /\ SubSeq(results', 1, Len(results)) = results
    /\ RowPerModelColumnPerMetric(results'[Len(results')])

GeneratorScore(g, i, j) ==
    LET truth == GeneratedTruth(g.generator, g.sample_size)
    IN  ApplyMetric(metrics[j].value, truth,
                    EstimateCausalEffect(ModelDictionary(models)[i].value,
                                         truth)).val

RECURSIVE SumOfScores(_, _, _)
SumOfScores(k, i, j) ==
    IF k = 0 THEN FromInt(0)
    ELSE FAdd(SumOfScores(k - 1, i, j), GeneratorScore(generators[k], i, j))

\* C4: every cell of the table of run() is the unweighted mean, over the
\* registered generators, of the generator's score for the cell: the score
\* itself with one generator, (a + b) / 2 with two.
C4_CellsAreUnweightedMeans ==
    (last.op = "run" /\ last.status = "ok" /\ Len(generators) >= 1)
      => LET table == results[Len(results)]
         IN  \A i \in 1..Len(table.data) : \A j \in 1..Len(table.data[i]) :
               /\ table.data[i][j] =
                    FDiv(SumOfScores(Len(generators), i, j),
                         FromInt(Len(generators)))
               /\ Len(generators) = 1
                    => table.data[i][j] = GeneratorScore(generators[1], i, j)
               /\ Len(generators) = 2
                    => table.data[i][j] =
                         FDiv(FAdd(GeneratorScore(generators[1], i, j),
                                   GeneratorScore(generators[2], i, j)),
                              FromInt(2))

\* Two generators of different sample sizes (1 and 2) scoring 9 and 1 for
\* the first cell: the cell is 5, not the sample-weighted 11/3.
C4_Witness ==
    /\ last.op = "run"
    /\ last.status = "ok"
    /\ Len(generators) = 2
    /\ generators[1].sample_size # generators[2].sample_size
    /\ Len(models) >= 1
    /\ Len(metrics) >= 1
    /\ GeneratorScore(generators[1], 1, 1) = FromInt(9)
    /\ GeneratorScore(generators[2], 1, 1) = FromInt(1)
    /\ results[Len(results)].data[1][1] = FromInt(5)

\* C5 as stated: run() with no generator registered is rejected: it ends
\* in an error, appends no table and leaves trained as it was (False).
C5_EmptyRunRejected ==
    [][(last'.op = "run" /\ Len(generators) = 0)
         => /\ last'.status # "ok"
            /\ UNCHANGED <<results, trained>>]_vars

\* C6 as stated: the table of run() has one row per registered model,
\* row i indexed by the display name of the i-th model, and one column per
\* registered metric, also when display names coincide.
C6_RunRowPerModel ==
    (last.op = "run" /\ last.status = "ok" /\ Len(generators) >= 1)
      => RowPerModelColumnPerMetric(results[Len(results)])

\* C9 as stated, for runs with a generator registered: every completed
\* run() and test_specific_set() call persists its table to a path that no
\* earlier call since reset() wrote.
C9_FreshPath ==
    [][(/\ last'.op \in {"run", "test_specific_set"}
        /\ last'.status = "ok"
        /\ Len(generators) >= 1)
         => written' # written]_vars

\* C15 as stated: after a completed run(), second and later runs included,
\* each registered generator's directory is the experiment's directory,
\* '/' and the generator's own subdirectory name: the experiment directory
\* is prefixed exactly once.
C15_DirectoryPrefixedOnce ==
    (last.op = "run" /\ last.status = "ok")
      => \A i \in 1..Len(generators) :
             generators[i].generator.directory
               = directory \o <<"/", generators[i].generator.name>>

\* C16 as stated, for an experiment whose first run() scored at least one
\* model on at least one generator: while trained is True every model in
\* models was registered when a run() completed, so no call leaves trained
\* True with a model in models that was not registered before the call.
C16_TrainedModelsOnly ==
    [][(/\ trained'
        /\ Len(results) >= 1
        /\ Len(results[1].index) >= 1)
         => \A i \in 1..Len(models') :
                \E k \in 1..Len(models) : models[k] = models'[i]]_vars

----------------------------------------------------------------------------
(* Properties of the metric functions (under MetricSpec).                  *)

\* C10 as stated, for predictions as long as the ground truth: 'eATE (%)'
\* applied to a ground truth whose mean is exactly 0 ends in an error, and
\* returns no score.
C10_ZeroMeanIsAnError ==
    (/\ evaluated.metric = "eATE (%)"
     /\ Len(evaluated.ite_truth) > 0
     /\ Len(evaluated.ite_pred) = Len(evaluated.ite_truth)
     /\ SumInts(evaluated.ite_truth) = 0)
      => evaluated.outcome.err # "none"

\* C11 as stated: each of the six built-in metrics, applied to a ground
\* truth and predictions of different lengths (predictions shorter or
\* longer), ends in an error and returns no score.
C11_MismatchedLengthsFail ==
    (/\ evaluated.metric # ""
     /\ Len(evaluated.ite_pred) # Len(evaluated.ite_truth))
      => evaluated.outcome.err # "none"

----------------------------------------------------------------------------
(* Properties of the generator mechanisms (under MechanismSpec).           *)

DeterministicOutcomeBuilders ==
    {"add_all_effects_generator", "add_no_treatment_effect_generator",
     "add_only_treatment_effect_generator",
     "add_constant_treatment_effect_generator",
     "add_constant_proxied_treatment_effect_generator",
     "add_noisy_spiked_proxy_generator"}

\* C12 as stated: for each built-in generator with a deterministic
\* outcome_function and every feature vector x, cate(x) equals
\* outcome_function(main, 1, treatment_effect(x), noise) minus
\* outcome_function(main, 0, treatment_effect(x), noise).
C12_CateIsOutcomeDifference ==
    (evaluated.op = "cate" /\ last.op \in DeterministicOutcomeBuilders)
      => evaluated.cate = FSub(evaluated.treated, evaluated.control)

\* C13 as stated: two experiments constructed with the same seed and
\* configured with the same built-in generator generate identical
\* datasets.
C13_SameSeedSameDataset ==
    evaluated.op = "generate_data" => evaluated.first = evaluated.second

----------------------------------------------------------------------------
(* Properties of the generator builders (under BuilderSpec).               *)

\* C14 as stated: every generator builder, add_spiked_proxy_generator
\* included, completes without error, appends exactly one
\* (generator, sample_size) pair with the sample_size it was given to the
\* end of generators, and leaves models, metrics, results and trained
\* unchanged.
C14_BuildersAppendOnePair ==
    [][last'.op \in GeneratorBuilders
         => /\ last'.status = "ok"
            /\ Len(generators') = Len(generators) + 1
            /\ SubSeq(generators', 1, Len(generators)) = generators
            /\ generators'[Len(generators')].sample_size
                  = last'.args.sample_size
            /\ UNCHANGED <<models, metrics, results, trained>>]_vars

====
